---- MODULE Spec2Model ----
(***************************************************************************)
(* Model of wgpu-hal's GLES adapter (src/wgpu-hal/src/gles/adapter.rs):    *)
(* the version parser `parse_version`, the adapter probe `expose` and the  *)
(* device bootstrap `open`.                                                *)
(*                                                                         *)
(* Strings are sequences of one-character strings, so that the slicing,    *)
(* searching, splitting and trimming of the parser are computed the way    *)
(* the Rust code computes them.                                            *)
(***************************************************************************)
EXTENDS Integers, Sequences, FiniteSets, TLC

VARIABLES
    parse_in,     \* the string handed to parse_version, kept as its parts
    parse_out,    \* what parse_version returned for it
    gl,           \* the native context handed to expose: strings, extensions, integer parameters
    exposed,      \* what expose returned
    gl_objects,   \* native objects currently allocated in the context
    gl_state,     \* context state set by open: bindings, pixel store, buffer data
    next_name,    \* the next native object name the context hands out
    opened,       \* what the last call of open returned, and what it created
    opens,        \* how many times open has been called
    tex_format,   \* the format handed to texture_format_capabilities
    tex_caps      \* what texture_format_capabilities returned for it

vars ==
    <<parse_in, parse_out, gl, exposed, gl_objects, gl_state, next_name, opened, opens,
      tex_format, tex_caps>>

----------------------------------------------------------------------------
(* Bounds of the model.                                                    *)

\* longest major / minor component text drawn for the parser
MaxDigits == 3
\* largest per-stage resource count the modelled driver reports
MaxCount == 1
\* number of times open is called on one adapter
MaxOpens == 2

----------------------------------------------------------------------------
(* String helpers: the str methods parse_version uses.                     *)

\* str::starts_with
StartsWith(s, p) == Len(s) >= Len(p) /\ SubSeq(s, 1, Len(p)) = p

\* the 1-based start positions of pattern p in s
Occurrences(s, p) ==
    {i \in 1..(Len(s) - Len(p) + 1) : SubSeq(s, i, i + Len(p) - 1) = p}

SetMin(S) == CHOOSE x \in S : \A y \in S : x <= y
SetMax(S) == CHOOSE x \in S : \A y \in S : x >= y

\* str::find: the first occurrence (1-based), 0 for None
Find(s, p) == IF Occurrences(s, p) = {} THEN 0 ELSE SetMin(Occurrences(s, p))

\* str::rfind: the last occurrence (1-based), 0 for None
RFind(s, p) == IF Occurrences(s, p) = {} THEN 0 ELSE SetMax(Occurrences(s, p))

\* &src[pos + sig.len()..] where pos is the 0-based index of 1-based position i
SliceAfter(s, i, p) == SubSeq(s, i + Len(p), Len(s))

\* str::split('.'): the sequence of components
RECURSIVE SplitDot(_)
SplitDot(s) ==
    LET d == Find(s, <<".">>)
    IN  IF d = 0 THEN <<s>>
        ELSE <<SubSeq(s, 1, d - 1)>> \o SplitDot(SubSeq(s, d + 1, Len(s)))

\* str::trim_end_matches('0')
RECURSIVE TrimEndZeros(_)
TrimEndZeros(s) ==
    IF s # <<>> /\ s[Len(s)] = "0" THEN TrimEndZeros(SubSeq(s, 1, Len(s) - 1)) ELSE s

DigitChars == {"0", "1", "2", "3", "4", "5", "6", "7", "8", "9"}

DigitVal(c) ==
    CASE c = "0" -> 0 [] c = "1" -> 1 [] c = "2" -> 2 [] c = "3" -> 3 [] c = "4" -> 4
      [] c = "5" -> 5 [] c = "6" -> 6 [] c = "7" -> 7 [] c = "8" -> 8 [] c = "9" -> 9

\* the number a digit string denotes
RECURSIVE DecimalValue(_)
DecimalValue(s) ==
    IF s = <<>> THEN 0
    ELSE 10 * DecimalValue(SubSeq(s, 1, Len(s) - 1)) + DigitVal(s[Len(s)])

NoneU8 == [some |-> FALSE, val |-> 0]
SomeU8(n) == [some |-> TRUE, val |-> n]

\* <u8 as FromStr>::from_str(s).ok(): an optional '+', then one or more digits,
\* the value at most u8::MAX; anything else is None
ParseU8(s) ==
    LET digits == IF s # <<>> /\ s[1] = "+" THEN Tail(s) ELSE s
    IN  IF /\ digits # <<>>
           /\ \A i \in 1..Len(digits) : digits[i] \in DigitChars
           /\ DecimalValue(digits) <= 255
        THEN SomeU8(DecimalValue(digits))
        ELSE NoneU8

----------------------------------------------------------------------------
(* parse_version                                                           *)

webgl_sig == <<"W", "e", "b", "G", "L", " ">>
es_sig == <<" ", "E", "S", " ">>
glsl_es_sig == <<"G", "L", "S", "L", " ", "E", "S", " ">>

Ok(major, minor) == [tag |-> "Ok", major |-> major, minor |-> minor]
Err == [tag |-> "Err", major |-> 0, minor |-> 0]
Panic == [tag |-> "Panic", major |-> 0, minor |-> 0]

\* lines 29-44: strip the API-family marker; found = FALSE is the early Err
StripMarker(src) ==
    IF StartsWith(src, webgl_sig)
    THEN [found |-> TRUE, is_webgl |-> TRUE,
          rest |-> SliceAfter(src, RFind(src, webgl_sig), webgl_sig)]
    ELSE IF RFind(src, es_sig) # 0
         THEN [found |-> TRUE, is_webgl |-> FALSE,
               rest |-> SliceAfter(src, RFind(src, es_sig), es_sig)]
         ELSE [found |-> FALSE, is_webgl |-> FALSE, rest |-> src]

\* lines 46-53: strip through the shading-language marker
StripGlsl(src) ==
    IF Find(src, glsl_es_sig) # 0
    THEN [is_glsl |-> TRUE, rest |-> SliceAfter(src, Find(src, glsl_es_sig), glsl_es_sig)]
    ELSE [is_glsl |-> FALSE, rest |-> src]

\* lines 55-58: the release is what precedes the first space
VersionText(src) ==
    IF Find(src, <<" ">>) # 0 THEN SubSeq(src, 1, Find(src, <<" ">>) - 1) ELSE src

\* line 63: the first component of the release, parsed
MajorOf(version) == ParseU8(SplitDot(version)[1])

\* lines 64-71: the second component, normalised and parsed
\* faulty variant of MinorTrim: the component is parsed as written
MinorTrimOff(s) == s
MinorTrim(s) == IF StartsWith(s, <<"0">>) THEN <<"0">> ELSE TrimEndZeros(s)

\* faulty variant of MinorOf: a release without a second component reads as minor 0
MinorOfDefaultZero(version) ==
    IF Len(SplitDot(version)) < 2 THEN SomeU8(0)
    ELSE ParseU8(MinorTrim(SplitDot(version)[2]))
MinorOf(version) ==
    IF Len(SplitDot(version)) < 2 THEN NoneU8
    ELSE ParseU8(MinorTrim(SplitDot(version)[2]))

\* lines 76-80: `major + 1` on a u8. With overflow checks (debug builds) 255 + 1
\* panics; without them (release builds) it wraps to 0. Both builds exist, so
\* the result is the set of outcomes.
Remap(is_webgl, is_glsl, major, minor) ==
    IF is_webgl /\ ~is_glsl
    THEN IF major + 1 > 255 THEN {Panic, Ok((major + 1) % 256, minor)}
         ELSE {Ok(major + 1, minor)}
    ELSE {Ok(major, minor)}

\* the outcomes of parse_version(src)
parse_version(src) ==
    LET m == StripMarker(src)
        g == StripGlsl(m.rest)
        version == VersionText(g.rest)
        major == MajorOf(version)
        minor == MinorOf(version)
    IN  IF ~m.found THEN {Err}
        ELSE IF major.some /\ minor.some
             THEN Remap(m.is_webgl, g.is_glsl, major.val, minor.val)
             ELSE {Err}

----------------------------------------------------------------------------
(* The parser's inputs: <prefix><major>[.<minor>]<rest>                    *)

NotRun == [tag |-> "NotRun", major |-> 0, minor |-> 0]

OpenGL == <<"O", "p", "e", "n", "G", "L">>
Nexus == <<" ", "N", "e", "x", "u", "s">>
Chromium == <<" ", "(", "O", "p", "e", "n", "G", "L", " ", "E", "S", " ", "3", ".", "0", ")">>

\* prefixes carrying the " ES " marker and no web-variant marker
EsPrefixes ==
    { OpenGL \o es_sig,
      <<"G", "L", "S", "L">> \o es_sig,
      OpenGL \o es_sig \o glsl_es_sig }
\* web-variant prefixes, without and with the shading-language marker
WebPrefixes == { webgl_sig, webgl_sig \o glsl_es_sig }
\* prefixes without any marker
BarePrefixes == { <<>>, OpenGL \o <<" ">> }
Prefixes == EsPrefixes \cup WebPrefixes \cup BarePrefixes

\* what may follow the release: nothing, vendor info, garbage glued to the
\* release, a revision, vendor info that itself holds a marker
Garbage == { <<"x">>, <<"x">> \o Nexus }
Revision == <<".", "3">>
Rests == { <<>>, Nexus, Revision, Chromium } \cup Garbage

\* digit strings of length 1..n over the alphabet D
RECURSIVE DigitTexts(_, _)
DigitTexts(D, n) ==
    IF n = 0 THEN {}
    ELSE LET shorter == DigitTexts(D, n - 1)
         IN  {<<d>> : d \in D} \cup shorter \cup {t \o <<d>> : t \in shorter, d \in D}

MajorTexts == DigitTexts({"2", "5"}, MaxDigits)
MinorTexts == DigitTexts({"0", "2"}, MaxDigits)

ParseInputs ==
    [pre : Prefixes, maj : MajorTexts, dot : {<<".">>}, min : MinorTexts, rest : Rests]
    \cup
    [pre : Prefixes, maj : MajorTexts, dot : {<<>>, <<".">>}, min : {<<>>},
     rest : Rests \ {Revision}]

\* the string a parts record stands for
Src(in) == in.pre \o in.maj \o in.dot \o in.min \o in.rest

----------------------------------------------------------------------------
(* State machine of the parser: one call of parse_version on one input.    *)

NoContext == [version |-> <<>>, sl_version |-> <<>>, extensions |-> {}, params |-> <<>>]
NoAdapter == [tag |-> "NotRun"]
NoDevice == [tag |-> "NotRun", created |-> {}]
NoCaps == [tag |-> "NotRun", caps |-> {}]

\* a fresh context: GL's initial pixel-store alignments, nothing bound
GlInitialState ==
    [ unpack_alignment |-> 4, pack_alignment |-> 4,
      vertex_array |-> 0, copy_read_buffer |-> 0, zeroed |-> {} ]

InitParse ==
    /\ parse_in \in ParseInputs
    /\ parse_out = NotRun
    /\ gl = NoContext
    /\ exposed = NoAdapter
    /\ gl_objects = {}
    /\ gl_state = GlInitialState
    /\ next_name = 1
    /\ opened = NoDevice
    /\ opens = 0
    /\ tex_format = "R8Unorm"
    /\ tex_caps = NoCaps

ParseVersion ==
    /\ parse_out = NotRun
    /\ parse_out' \in parse_version(Src(parse_in))
    /\ UNCHANGED <<parse_in, gl, exposed, gl_objects, gl_state, next_name, opened, opens,
                   tex_format, tex_caps>>

NextParse == ParseVersion

SpecParse == InitParse /\ [][NextParse]_vars

----------------------------------------------------------------------------
(* Claims about parse_version, checked under SpecParse.                    *)

\* the number n without its trailing zero digits (20 -> 2, 200 -> 2, 0 -> 0)
RECURSIVE WithoutTrailingZeros(_)
WithoutTrailingZeros(n) ==
    IF n > 0 /\ n % 10 = 0 THEN WithoutTrailingZeros(n \div 10) ELSE n

\* the minor the parser is specified to report for a minor component text
NormalizedMinor(text) ==
    IF text[1] = "0" THEN 0 ELSE WithoutTrailingZeros(DecimalValue(text))

\* "<marker> ES <major>.<minor>", both numbers fitting u8, no web prefix
WellFormed(in) ==
    /\ in.pre \in EsPrefixes
    /\ in.dot = <<".">> /\ in.min # <<>> /\ in.rest = <<>>
    /\ DecimalValue(in.maj) <= 255 /\ DecimalValue(in.min) <= 255

\* a decimal number written without superfluous leading zeros
Canonical(text) == text = <<"0">> \/ text[1] # "0"

\* C4 as stated: every well-formed "<marker> ES <major>.<minor>" parses to exactly
\* Ok((major, minor)).
C4_ExactMajorMinor ==
    (parse_out # NotRun /\ WellFormed(parse_in) /\ Canonical(parse_in.min))
        => parse_out = Ok(DecimalValue(parse_in.maj), DecimalValue(parse_in.min))

\* C4 amended: every well-formed "<marker> ES <major>.<minor>" parses to
\* Ok((major, m)), m being 0 when the minor's text begins with '0' and otherwise
\* the minor without its trailing zero digits; so it is exactly (major, minor)
\* whenever the minor's text neither begins nor ends with '0'.
C4_MajorNormalizedMinor ==
    (parse_out # NotRun /\ WellFormed(parse_in))
        => /\ parse_out = Ok(DecimalValue(parse_in.maj), NormalizedMinor(parse_in.min))
           /\ (parse_in.min[1] # "0" /\ parse_in.min[Len(parse_in.min)] # "0")
                 => parse_out.minor = DecimalValue(parse_in.min)

\* C4 witness: a well-formed input whose minor ends in zeros ("...2.20") was parsed
\* and its minor came out stripped.
C4_Witness ==
    /\ WellFormed(parse_in)
    /\ parse_in.min = <<"2", "0">>
    /\ parse_out = Ok(DecimalValue(parse_in.maj), 2)

\* a string without the " ES " marker and without the web-variant prefix
LacksMarker(in) == in.pre \in BarePrefixes /\ in.rest # Chromium
\* a release with only a major component: "<major>" or "<major>."
MajorOnly(in) == in.min = <<>> /\ in.rest \in {<<>>, Nexus}
\* a release with non-numeric garbage glued to its minor component
TrailingGarbage(in) == in.min # <<>> /\ in.rest \in Garbage

\* C5 as stated: parse_version returns an error, and does not panic, for every
\* string lacking the marker, every release with only a major component and every
\* release followed by non-numeric garbage.
C5_MalformedIsError ==
    (/\ parse_out # NotRun
     /\ LacksMarker(parse_in) \/ MajorOnly(parse_in) \/ TrailingGarbage(parse_in))
        => parse_out = Err

\* C5 amended: parse_version returns an error, and does not panic, for every string
\* lacking the marker, every release with only a major component, and every release
\* with garbage glued to a minor component that does not begin with '0' (a minor
\* beginning with '0' is read as 0 whatever follows it).
C5_MalformedIsErrorUnlessZeroMinor ==
    (/\ parse_out # NotRun
     /\ \/ LacksMarker(parse_in)
        \/ MajorOnly(parse_in)
        \/ TrailingGarbage(parse_in) /\ parse_in.min[1] # "0")
        => parse_out = Err

\* C5 witness: a marked release with garbage after a minor not beginning with '0'
\* ("OpenGL ES 2.2x") was rejected.
C5_Witness ==
    /\ parse_in.pre \in EsPrefixes
    /\ TrailingGarbage(parse_in) /\ parse_in.min[1] # "0"
    /\ DecimalValue(parse_in.maj) <= 255
    /\ parse_out = Err

\* an input whose release <major>.<minor> is parsed successfully
Parses(in) ==
    /\ in.pre \in EsPrefixes \cup WebPrefixes
    /\ in.dot = <<".">> /\ in.min # <<>> /\ in.rest \in {<<>>, Nexus}
    /\ DecimalValue(in.maj) <= 255 /\ NormalizedMinor(in.min) <= 255

\* C6: for every input that parses, with release major M (any u8) and normalized
\* minor m, the result is (M + 1, m) when the string begins with the web-variant
\* marker and holds no shading-language marker, and (M, m) otherwise.
C6_WebRemap ==
    (parse_out # NotRun /\ Parses(parse_in))
        => parse_out =
             Ok(IF parse_in.pre = webgl_sig
                THEN DecimalValue(parse_in.maj) + 1
                ELSE DecimalValue(parse_in.maj),
                NormalizedMinor(parse_in.min))

----------------------------------------------------------------------------
(* expose: the adapter probe.                                              *)

\* `ver >= (a, b)`: tuples compare lexicographically
VerGe(ver, a, b) == ver.major > a \/ (ver.major = a /\ ver.minor >= b)

\* bitflags `set(flag, value)`
SetFlag(flags, flag, value) == IF value THEN flags \cup {flag} ELSE flags \ {flag}

\* i32::min
MinI32(a, b) == IF a <= b THEN a ELSE b

\* NonZeroU64::new(n).unwrap() panics on 0
UnwrapPanics(n) == n = 0

\* line 176: sl_major as u16 * 100 + sl_minor as u16 * 10 (at most 28050, no overflow)
ShadingLanguageVersion(sl) == sl.major * 100 + sl.minor * 10

\* lines 180-185
Features(ver, extensions) ==
    LET f0 == {"TEXTURE_COMPRESSION_ETC2"}
        f1 == SetFlag(f0, "DEPTH_CLAMPING", "GL_EXT_depth_clamp" \in extensions)
    IN  SetFlag(f1, "VERTEX_WRITABLE_STORAGE", VerGe(ver, 3, 1))

\* lines 187-204
DownlevelFlags(ver, extensions) ==
    LET d0 == {"DEVICE_LOCAL_IMAGE_COPIES", "NON_POWER_OF_TWO_MIPMAPPED_TEXTURES",
               "CUBE_ARRAY_TEXTURES", "COMPARISON_SAMPLERS"}
        d1 == SetFlag(d0, "COMPUTE_SHADERS", VerGe(ver, 3, 1))
        d2 == SetFlag(d1, "FRAGMENT_WRITABLE_STORAGE", VerGe(ver, 3, 1))
        d3 == SetFlag(d2, "INDIRECT_EXECUTION", VerGe(ver, 3, 1))
        d4 == SetFlag(d3, "BASE_VERTEX", VerGe(ver, 3, 2))
    IN  SetFlag(d4, "INDEPENDENT_BLENDING",
                VerGe(ver, 3, 2) \/ "GL_EXT_draw_buffers_indexed" \in extensions)

\* faulty variant of PrivateCapabilities: the binding-layout comparison is reversed
PrivateCapabilitiesReversed(ver, extensions) ==
    LET p0 == {}
        p1 == SetFlag(p0, "SHADER_BINDING_LAYOUT", ~VerGe(ver, 3, 1))
        p2 == SetFlag(p1, "SHADER_TEXTURE_SHADOW_LOD",
                      "GL_EXT_texture_shadow_lod" \in extensions)
        p3 == SetFlag(p2, "MEMORY_BARRIERS", VerGe(ver, 3, 1))
    IN  SetFlag(p3, "VERTEX_BUFFER_LAYOUT", VerGe(ver, 3, 1))
\* lines 254-267
PrivateCapabilities(ver, extensions) ==
    LET p0 == {}
        p1 == SetFlag(p0, "SHADER_BINDING_LAYOUT", VerGe(ver, 3, 1))
        p2 == SetFlag(p1, "SHADER_TEXTURE_SHADOW_LOD",
                      "GL_EXT_texture_shadow_lod" \in extensions)
        p3 == SetFlag(p2, "MEMORY_BARRIERS", VerGe(ver, 3, 1))
    IN  SetFlag(p3, "VERTEX_BUFFER_LAYOUT", VerGe(ver, 3, 1))

\* constants of the crate used by the limits record
MAX_BIND_GROUPS == 8
MAX_TEXTURE_SLOTS == 16
MAX_SAMPLERS == 16
MAX_VERTEX_ATTRIBUTES == 16
MAX_VERTEX_BUFFERS == 16

\* lines 209-215: the two alignment locals. The driver's values are i32; the
\* modelled driver reports non-negative ones, on which `as u32` and `as u64`
\* keep the value.
MinUniformBufferOffsetAlignment(params) == params.UNIFORM_BUFFER_OFFSET_ALIGNMENT
MinStorageBufferOffsetAlignment(ver, params) ==
    IF VerGe(ver, 3, 1) THEN params.SHADER_STORAGE_BUFFER_OFFSET_ALIGNMENT ELSE 256

\* lines 216-252
Limits(ver, params) ==
    LET max_texture_size == params.MAX_TEXTURE_SIZE
        max_texture_3d_size == params.MAX_3D_TEXTURE_SIZE
        max_uniform_buffers_per_shader_stage ==
            MinI32(params.MAX_VERTEX_UNIFORM_BLOCKS, params.MAX_FRAGMENT_UNIFORM_BLOCKS)
        max_storage_buffers_per_shader_stage ==
            MinI32(params.MAX_VERTEX_SHADER_STORAGE_BLOCKS,
                   params.MAX_FRAGMENT_SHADER_STORAGE_BLOCKS)
        max_storage_textures_per_shader_stage == params.MAX_FRAGMENT_IMAGE_UNIFORMS
    IN  [ max_texture_dimension_1d |-> max_texture_size,
          max_texture_dimension_2d |-> max_texture_size,
          max_texture_dimension_3d |-> max_texture_3d_size,
          max_texture_array_layers |-> params.MAX_ARRAY_TEXTURE_LAYERS,
          max_bind_groups |-> MAX_BIND_GROUPS,
          max_dynamic_uniform_buffers_per_pipeline_layout |->
              max_uniform_buffers_per_shader_stage,
          max_dynamic_storage_buffers_per_pipeline_layout |->
              max_storage_buffers_per_shader_stage,
          max_sampled_textures_per_shader_stage |-> MAX_TEXTURE_SLOTS,
          max_samplers_per_shader_stage |-> MAX_SAMPLERS,
          max_storage_buffers_per_shader_stage |-> max_storage_buffers_per_shader_stage,
          max_storage_textures_per_shader_stage |-> max_storage_textures_per_shader_stage,
          max_uniform_buffers_per_shader_stage |-> max_uniform_buffers_per_shader_stage,
          max_uniform_buffer_binding_size |-> params.MAX_UNIFORM_BLOCK_SIZE,
          max_storage_buffer_binding_size |->
              IF VerGe(ver, 3, 1) THEN params.MAX_SHADER_STORAGE_BLOCK_SIZE ELSE 0,
          max_vertex_buffers |-> params.MAX_VERTEX_ATTRIB_BINDINGS,
          max_vertex_attributes |->
              MinI32(params.MAX_VERTEX_ATTRIBS, MAX_VERTEX_ATTRIBUTES),
          max_vertex_buffer_array_stride |-> params.MAX_VERTEX_ATTRIB_STRIDE,
          max_push_constant_size |-> 0 ]

\* lines 288-299: uniform_buffer_offset is built from the storage local and
\* storage_buffer_offset from the uniform local, each through new(..).unwrap()
Alignments(ver, params) ==
    [ buffer_copy_offset |-> 4,
      buffer_copy_pitch |-> 4,
      uniform_buffer_offset |-> MinStorageBufferOffsetAlignment(ver, params),
      storage_buffer_offset |-> MinUniformBufferOffsetAlignment(params) ]

AdapterNone == [tag |-> "None"]
AdapterPanic == [tag |-> "Panic"]

\* lines 180-301: the descriptor, once both versions are parsed
Describe(g, ver, sl) ==
    LET alignments == Alignments(ver, g.params)
    IN  IF \/ UnwrapPanics(alignments.uniform_buffer_offset)
           \/ UnwrapPanics(alignments.storage_buffer_offset)
        THEN AdapterPanic
        ELSE [ tag |-> "Some",
               private_caps |-> PrivateCapabilities(ver, g.extensions),
               shading_language_version |-> ShadingLanguageVersion(sl),
               features |-> Features(ver, g.extensions),
               limits |-> Limits(ver, g.params),
               downlevel_flags |-> DownlevelFlags(ver, g.extensions),
               shader_model |-> "Sm5",
               alignments |-> alignments ]

\* faulty variant of ExposeResult: a shading-language version that does not parse is
\* replaced by 1.00 and the probe goes on
ExposeResultDegraded(g, v, s) ==
    IF v.tag = "Panic" THEN AdapterPanic
    ELSE IF v.tag = "Err" THEN AdapterNone
    ELSE IF s.tag = "Panic" THEN AdapterPanic
    ELSE IF s.tag = "Err" THEN Describe(g, v, Ok(1, 0))
    ELSE Describe(g, v, s)
\* lines 168, 175: `parse_version(..).ok()?` on the version, then on the
\* shading-language version; v and s are the outcomes of the two calls
ExposeResult(g, v, s) ==
    IF v.tag = "Panic" THEN AdapterPanic
    ELSE IF v.tag = "Err" THEN AdapterNone
    ELSE IF s.tag = "Panic" THEN AdapterPanic
    ELSE IF s.tag = "Err" THEN AdapterNone
    ELSE Describe(g, v, s)

\* the outcomes of expose(gl)
expose(g) ==
    {ExposeResult(g, v, s) : v \in parse_version(g.version),
                             s \in parse_version(g.sl_version)}

----------------------------------------------------------------------------
(* The native contexts the probe is run on.                                *)

V30 == OpenGL \o es_sig \o <<"3", ".", "0">>
V31 == OpenGL \o es_sig \o <<"3", ".", "1">>
V32 == OpenGL \o es_sig \o <<"3", ".", "2">> \o Nexus
VWeb2 == webgl_sig \o <<"2", ".", "0">> \o Chromium
VNoMarker == OpenGL \o <<" ", "3", ".", "1">>
SL320 == OpenGL \o es_sig \o glsl_es_sig \o <<"3", ".", "2", "0">>
SLWeb300 == webgl_sig \o glsl_es_sig \o <<"3", ".", "0", "0">> \o Chromium
SLNoMinor == OpenGL \o es_sig \o glsl_es_sig \o <<"3">>

\* VERSION strings that parse, and one that does not
GoodVersions == {V30, V31, V32, VWeb2}
BadVersions == {VNoMarker}
\* SHADING_LANGUAGE_VERSION strings that parse, and one that does not
GoodSlVersions == {SL320, SLWeb300}
BadSlVersions == {SLNoMinor}

\* the string pairs one driver reports: a native driver reports native strings,
\* a web one web strings; either may report a malformed one
VersionPairs ==
    {<<v, s>> \in (GoodVersions \cup BadVersions) \X (GoodSlVersions \cup BadSlVersions) :
        /\ (s = SLWeb300) => (v = VWeb2)
        /\ (s = SL320) => (v # VWeb2)}

ExtensionNames ==
    {"GL_EXT_depth_clamp", "GL_EXT_draw_buffers_indexed", "GL_EXT_texture_shadow_lod"}

\* per-stage maxima the driver reports
StageCounts == 0..MaxCount
\* offset alignments the driver reports, 0 among them
UniformAlignments == {0, 16}
StorageAlignments == {0, 32}
\* vertex attribute / binding counts the driver reports, below and above 16
VertexCounts == {8, 32}

ParamSets ==
    [ MAX_TEXTURE_SIZE : {4096},
      MAX_3D_TEXTURE_SIZE : {256},
      UNIFORM_BUFFER_OFFSET_ALIGNMENT : UniformAlignments,
      SHADER_STORAGE_BUFFER_OFFSET_ALIGNMENT : StorageAlignments,
      MAX_VERTEX_UNIFORM_BLOCKS : StageCounts,
      MAX_FRAGMENT_UNIFORM_BLOCKS : StageCounts,
      MAX_VERTEX_SHADER_STORAGE_BLOCKS : StageCounts,
      MAX_FRAGMENT_SHADER_STORAGE_BLOCKS : StageCounts,
      MAX_VERTEX_IMAGE_UNIFORMS : StageCounts,
      MAX_FRAGMENT_IMAGE_UNIFORMS : StageCounts,
      MAX_ARRAY_TEXTURE_LAYERS : {256},
      MAX_UNIFORM_BLOCK_SIZE : {16384},
      MAX_SHADER_STORAGE_BLOCK_SIZE : {65536},
      MAX_VERTEX_ATTRIB_BINDINGS : VertexCounts,
      MAX_VERTEX_ATTRIBS : VertexCounts,
      MAX_VERTEX_ATTRIB_STRIDE : {2048} ]

\* the context of a driver reporting these strings, extensions and parameters
Context(vs, e, p) ==
    [version |-> vs[1], sl_version |-> vs[2], extensions |-> e, params |-> p]

----------------------------------------------------------------------------
(* State machine of the probe: one call of expose on one context.          *)

Init ==
    /\ parse_in = [pre |-> <<>>, maj |-> <<>>, dot |-> <<>>, min |-> <<>>, rest |-> <<>>]
    /\ parse_out = NotRun
    /\ \E vs \in VersionPairs, e \in SUBSET ExtensionNames, p \in ParamSets :
          gl = Context(vs, e, p)
    /\ exposed = NoAdapter
    /\ gl_objects = {}
    /\ gl_state = GlInitialState
    /\ next_name = 1
    /\ opened = NoDevice
    /\ opens = 0
    /\ tex_format = "R8Unorm"
    /\ tex_caps = NoCaps

Expose ==
    /\ exposed = NoAdapter
    /\ exposed' \in expose(gl)
    /\ UNCHANGED <<parse_in, parse_out, gl, gl_objects, gl_state, next_name, opened, opens,
                   tex_format, tex_caps>>

Next == Expose

Spec == Init /\ [][Next]_vars

----------------------------------------------------------------------------
(* Claims about expose, checked under Spec.                                *)

\* the version the probe of the context works with
ProbedVersion == CHOOSE v \in parse_version(gl.version) : TRUE

\* C1: whenever the driver reports 0 for the uniform-buffer offset alignment, or
\* at version >= (3,1) for the storage-buffer offset alignment, expose returns
\* None: no descriptor with a zero alignment, and no panic.
C1_ZeroAlignmentIsNone ==
    (/\ exposed # NoAdapter
     /\ \/ gl.params.UNIFORM_BUFFER_OFFSET_ALIGNMENT = 0
        \/ /\ ProbedVersion.tag = "Ok" /\ VerGe(ProbedVersion, 3, 1)
           /\ gl.params.SHADER_STORAGE_BUFFER_OFFSET_ALIGNMENT = 0)
        => exposed.tag = "None"

\* C2: in every descriptor expose returns, the storage-buffer offset alignment is
\* 256 below version (3,1) and the driver's storage-buffer alignment otherwise, and
\* the uniform-buffer offset alignment is the driver's uniform-buffer alignment.
C2_AlignmentsFromOwnQuery ==
    exposed.tag = "Some"
        => /\ exposed.alignments.storage_buffer_offset =
                 (IF VerGe(ProbedVersion, 3, 1)
                  THEN gl.params.SHADER_STORAGE_BUFFER_OFFSET_ALIGNMENT
                  ELSE 256)
           /\ exposed.alignments.uniform_buffer_offset =
                 gl.params.UNIFORM_BUFFER_OFFSET_ALIGNMENT

\* C7: if the version string or the shading-language version string does not
\* parse, expose returns None; a descriptor is returned only when both parsed.
C7_ParseFailureIsNone ==
    /\ (exposed # NoAdapter /\ (gl.version \in BadVersions \/ gl.sl_version \in BadSlVersions))
          => exposed = AdapterNone
    /\ exposed.tag = "Some"
          => (gl.version \in GoodVersions /\ gl.sl_version \in GoodSlVersions)

\* C7 witness: the version parsed, the shading-language version did not, and the
\* probe returned None.
C7_Witness ==
    /\ gl.version \in GoodVersions /\ gl.sl_version \in BadSlVersions
    /\ gl.params.UNIFORM_BUFFER_OFFSET_ALIGNMENT # 0
    /\ gl.params.SHADER_STORAGE_BUFFER_OFFSET_ALIGNMENT # 0
    /\ exposed = AdapterNone

\* C8: every feature flag, downlevel flag and private capability flag of a
\* descriptor probed at version (3,0) is also granted at version (3,1), for the
\* same extension set.
C8_MonotoneFrom30To31 ==
    /\ (exposed.tag = "Some" /\ ProbedVersion = Ok(3, 0))
          => /\ exposed.features \subseteq Features(Ok(3, 1), gl.extensions)
             /\ exposed.downlevel_flags \subseteq DownlevelFlags(Ok(3, 1), gl.extensions)
             /\ exposed.private_caps \subseteq PrivateCapabilities(Ok(3, 1), gl.extensions)
    /\ (exposed.tag = "Some" /\ ProbedVersion = Ok(3, 1))
          => /\ Features(Ok(3, 0), gl.extensions) \subseteq exposed.features
             /\ DownlevelFlags(Ok(3, 0), gl.extensions) \subseteq exposed.downlevel_flags
             /\ PrivateCapabilities(Ok(3, 0), gl.extensions) \subseteq exposed.private_caps

\* C8 witness: a descriptor probed at version (3,0) with every extension present
\* holds the extension-granted flags.
C8_Witness ==
    /\ exposed.tag = "Some" /\ ProbedVersion = Ok(3, 0)
    /\ gl.extensions = ExtensionNames
    /\ "DEPTH_CLAMPING" \in exposed.features
    /\ "INDEPENDENT_BLENDING" \in exposed.downlevel_flags
    /\ "SHADER_TEXTURE_SHADOW_LOD" \in exposed.private_caps

\* C9: in every descriptor, the per-stage uniform-buffer, storage-buffer and
\* storage-texture counts are each the minimum of the vertex-stage and the
\* fragment-stage maxima the driver reports.
C9_PerStageIsMinOfStages ==
    exposed.tag = "Some"
        => /\ exposed.limits.max_uniform_buffers_per_shader_stage =
                 SetMin({gl.params.MAX_VERTEX_UNIFORM_BLOCKS,
                         gl.params.MAX_FRAGMENT_UNIFORM_BLOCKS})
           /\ exposed.limits.max_storage_buffers_per_shader_stage =
                 SetMin({gl.params.MAX_VERTEX_SHADER_STORAGE_BLOCKS,
                         gl.params.MAX_FRAGMENT_SHADER_STORAGE_BLOCKS})
           /\ exposed.limits.max_storage_textures_per_shader_stage =
                 SetMin({gl.params.MAX_VERTEX_IMAGE_UNIFORMS,
                         gl.params.MAX_FRAGMENT_IMAGE_UNIFORMS})

\* C10: in every descriptor, the vertex-attribute limit and the vertex-buffer
\* limit are at most their fixed maxima, whatever the driver reports.
C10_VertexLimitsCapped ==
    exposed.tag = "Some"
        => /\ exposed.limits.max_vertex_attributes <= MAX_VERTEX_ATTRIBUTES
           /\ exposed.limits.max_vertex_buffers <= MAX_VERTEX_BUFFERS

----------------------------------------------------------------------------
(* open: the device bootstrap, on an adapter a probe returned.             *)

\* the objects open creates, in the order it creates them (lines 313-338)
CreateOrder == <<"vertex_array", "buffer", "framebuffer", "framebuffer">>

\* the objects created when creation number fail_at fails (0: none fails);
\* the context hands out names in sequence
CreatedBy(fail_at, first_name) ==
    LET n == IF fail_at = 0 THEN Len(CreateOrder) ELSE fail_at - 1
    IN  [i \in 1..n |-> [kind |-> CreateOrder[i], name |-> first_name + i - 1]]

\* lines 311-323: the context state open leaves behind after creating `made`
StateAfter(state, made) ==
    [ unpack_alignment |-> 1,
      pack_alignment |-> 1,
      vertex_array |-> IF Len(made) >= 1 THEN made[1].name ELSE state.vertex_array,
      copy_read_buffer |-> IF Len(made) >= 2 THEN made[2].name ELSE state.copy_read_buffer,
      zeroed |-> IF Len(made) >= 2 THEN state.zeroed \cup {made[2].name} ELSE state.zeroed ]

\* the objects a failing open leaves allocated: `?` returns at once and the
\* handles created so far are plain names without a destructor
LeftAfterFailure(made) == {made[i] : i \in 1..Len(made)}

\* lines 306-343: what open returns
OpenResult(features, fail_at, made) ==
    IF fail_at # 0
    THEN [ tag |-> "Err", error |-> "OutOfMemory",
           created |-> {made[i] : i \in 1..Len(made)} ]
    ELSE [ tag |-> "Ok",
           device |-> [main_vao |-> made[1].name],
           queue |-> [ features |-> features,
                       draw_fbo |-> made[3].name,
                       copy_fbo |-> made[4].name,
                       zero_buffer |-> made[2].name,
                       temp_query_results |-> <<>> ],
           created |-> {made[i] : i \in 1..Len(made)} ]

Open(features, fail_at) ==
    /\ exposed.tag = "Some"
    /\ opens < MaxOpens
    /\ LET made == CreatedBy(fail_at, next_name)
       IN  /\ gl_objects' = gl_objects \cup
                  (IF fail_at # 0 THEN LeftAfterFailure(made)
                   ELSE {made[i] : i \in 1..Len(made)})
           /\ gl_state' = StateAfter(gl_state, made)
           /\ next_name' = next_name + Len(made)
           /\ opened' = OpenResult(features, fail_at, made)
    /\ opens' = opens + 1
    /\ UNCHANGED <<parse_in, parse_out, gl, exposed, tex_format, tex_caps>>

\* parameters with which the probe returns a descriptor
OpenParams ==
    {p \in ParamSets :
        /\ p.UNIFORM_BUFFER_OFFSET_ALIGNMENT # 0
        /\ p.SHADER_STORAGE_BUFFER_OFFSET_ALIGNMENT # 0
        /\ p.MAX_VERTEX_UNIFORM_BLOCKS = MaxCount
        /\ p.MAX_FRAGMENT_UNIFORM_BLOCKS = MaxCount
        /\ p.MAX_VERTEX_SHADER_STORAGE_BLOCKS = MaxCount
        /\ p.MAX_FRAGMENT_SHADER_STORAGE_BLOCKS = MaxCount
        /\ p.MAX_VERTEX_IMAGE_UNIFORMS = MaxCount
        /\ p.MAX_FRAGMENT_IMAGE_UNIFORMS = MaxCount
        /\ p.MAX_VERTEX_ATTRIBS = 8 /\ p.MAX_VERTEX_ATTRIB_BINDINGS = 8}

InitOpen ==
    /\ parse_in = [pre |-> <<>>, maj |-> <<>>, dot |-> <<>>, min |-> <<>>, rest |-> <<>>]
    /\ parse_out = NotRun
    /\ \E v \in {V30, V31}, e \in {{}, ExtensionNames}, p \in OpenParams :
          gl = Context(<<v, SL320>>, e, p)
    /\ exposed \in expose(gl)
    /\ gl_objects = {}
    /\ gl_state = GlInitialState
    /\ next_name = 1
    /\ opened = NoDevice
    /\ opens = 0
    /\ tex_format = "R8Unorm"
    /\ tex_caps = NoCaps

NextOpen ==
    \E features \in {{}, exposed.features}, fail_at \in 0..Len(CreateOrder) :
        Open(features, fail_at)

SpecOpen == InitOpen /\ [][NextOpen]_vars

\* C3: when open fails at any of its allocations it returns a device-creation
\* error, no device and no queue, and every object the call created before the
\* failure has been released.
C3_FailedOpenLeavesNothing ==
    opened.tag = "Err"
        => /\ opened.error = "OutOfMemory"
           /\ opened.created \cap gl_objects = {}

----------------------------------------------------------------------------
(* texture_format_capabilities: the format capability table.               *)

\* the variants of wgt::TextureFormat, as the exhaustive match names them
UncompressedFormats ==
    { "R8Unorm", "R8Snorm", "R8Uint", "R8Sint", "R16Uint", "R16Sint", "R16Float",
      "Rg8Unorm", "Rg8Snorm", "Rg8Uint", "Rg8Sint", "R32Uint", "R32Sint", "R32Float",
      "Rg16Uint", "Rg16Sint", "Rg16Float", "Rgba8Unorm", "Rgba8UnormSrgb",
      "Bgra8UnormSrgb", "Rgba8Snorm", "Bgra8Unorm", "Rgba8Uint", "Rgba8Sint",
      "Rgb10a2Unorm", "Rg11b10Float", "Rg32Uint", "Rg32Sint", "Rg32Float",
      "Rgba16Uint", "Rgba16Sint", "Rgba16Float", "Rgba32Uint", "Rgba32Sint",
      "Rgba32Float", "Depth32Float", "Depth24Plus", "Depth24PlusStencil8" }
BcFormats ==
    { "Bc1RgbaUnorm", "Bc1RgbaUnormSrgb", "Bc2RgbaUnorm", "Bc2RgbaUnormSrgb",
      "Bc3RgbaUnorm", "Bc3RgbaUnormSrgb", "Bc4RUnorm", "Bc4RSnorm", "Bc5RgUnorm",
      "Bc5RgSnorm", "Bc6hRgbSfloat", "Bc6hRgbUfloat", "Bc7RgbaUnorm", "Bc7RgbaUnormSrgb" }
Etc2Formats ==
    { "Etc2RgbUnorm", "Etc2RgbUnormSrgb", "Etc2RgbA1Unorm", "Etc2RgbA1UnormSrgb" }
EacFormats == { "EacRUnorm", "EacRSnorm", "EacRgUnorm", "EacRgSnorm" }
AstcFormats ==
    { "Astc4x4RgbaUnorm", "Astc4x4RgbaUnormSrgb", "Astc5x4RgbaUnorm", "Astc5x4RgbaUnormSrgb",
      "Astc5x5RgbaUnorm", "Astc5x5RgbaUnormSrgb", "Astc6x5RgbaUnorm", "Astc6x5RgbaUnormSrgb",
      "Astc6x6RgbaUnorm", "Astc6x6RgbaUnormSrgb", "Astc8x5RgbaUnorm", "Astc8x5RgbaUnormSrgb",
      "Astc8x6RgbaUnorm", "Astc8x6RgbaUnormSrgb", "Astc10x5RgbaUnorm", "Astc10x5RgbaUnormSrgb",
      "Astc10x6RgbaUnorm", "Astc10x6RgbaUnormSrgb", "Astc8x8RgbaUnorm", "Astc8x8RgbaUnormSrgb",
      "Astc10x8RgbaUnorm", "Astc10x8RgbaUnormSrgb", "Astc10x10RgbaUnorm",
      "Astc10x10RgbaUnormSrgb", "Astc12x10RgbaUnorm", "Astc12x10RgbaUnormSrgb",
      "Astc12x12RgbaUnorm", "Astc12x12RgbaUnormSrgb" }
TextureFormats ==
    UncompressedFormats \cup BcFormats \cup Etc2Formats \cup EacFormats \cup AstcFormats

\* lines 353-354
unfiltered_color == {"SAMPLED", "COLOR_ATTACHMENT"}
filtered_color == unfiltered_color \cup {"SAMPLED_LINEAR", "COLOR_ATTACHMENT_BLEND"}

\* faulty variant of CompressedCaps: compressed formats get the filtered colour tier
CompressedCapsAsColor == filtered_color
\* line 426: the value of the compressed-format arm
CompressedCaps == {"SAMPLED", "SAMPLED_LINEAR"}

\* lines 355-427: the match, arm by arm; a format no arm names has no value
texture_format_capabilities(format) ==
    CASE format \in {"R8Unorm", "R8Snorm"} -> filtered_color
      [] format \in {"R8Uint", "R8Sint", "R16Uint", "R16Sint"} -> unfiltered_color
      [] format \in {"R16Float", "Rg8Unorm", "Rg8Snorm"} -> filtered_color
      [] format \in {"Rg8Uint", "Rg8Sint", "R32Uint", "R32Sint"} ->
            unfiltered_color \cup {"STORAGE"}
      [] format \in {"R32Float"} -> unfiltered_color
      [] format \in {"Rg16Uint", "Rg16Sint"} -> unfiltered_color
      [] format \in {"Rg16Float", "Rgba8Unorm", "Rgba8UnormSrgb"} ->
            filtered_color \cup {"STORAGE"}
      [] format \in {"Bgra8UnormSrgb", "Rgba8Snorm", "Bgra8Unorm"} -> filtered_color
      [] format \in {"Rgba8Uint", "Rgba8Sint"} -> unfiltered_color \cup {"STORAGE"}
      [] format \in {"Rgb10a2Unorm", "Rg11b10Float"} -> filtered_color
      [] format \in {"Rg32Uint", "Rg32Sint"} -> unfiltered_color
      [] format \in {"Rg32Float"} -> unfiltered_color \cup {"STORAGE"}
      [] format \in {"Rgba16Uint", "Rgba16Sint"} -> unfiltered_color \cup {"STORAGE"}
      [] format \in {"Rgba16Float"} -> filtered_color \cup {"STORAGE"}
      [] format \in {"Rgba32Uint", "Rgba32Sint"} -> unfiltered_color \cup {"STORAGE"}
      [] format \in {"Rgba32Float"} -> unfiltered_color \cup {"STORAGE"}
      [] format \in {"Depth32Float"} -> {"SAMPLED", "DEPTH_STENCIL_ATTACHMENT"}
      [] format \in {"Depth24Plus"} -> {"SAMPLED", "DEPTH_STENCIL_ATTACHMENT"}
      [] format \in {"Depth24PlusStencil8"} -> {"SAMPLED", "DEPTH_STENCIL_ATTACHMENT"}
      [] format \in
            { "Bc1RgbaUnorm", "Bc1RgbaUnormSrgb", "Bc2RgbaUnorm", "Bc2RgbaUnormSrgb",
              "Bc3RgbaUnorm", "Bc3RgbaUnormSrgb", "Bc4RUnorm", "Bc4RSnorm",
              "Bc5RgUnorm", "Bc5RgSnorm", "Bc6hRgbSfloat", "Bc6hRgbUfloat",
              "Bc7RgbaUnorm", "Bc7RgbaUnormSrgb",
              "Etc2RgbUnorm", "Etc2RgbUnormSrgb", "Etc2RgbA1Unorm", "Etc2RgbA1UnormSrgb",
              "EacRUnorm", "EacRSnorm", "EacRgUnorm", "EacRgSnorm",
              "Astc4x4RgbaUnorm", "Astc4x4RgbaUnormSrgb",
              "Astc5x4RgbaUnorm", "Astc5x4RgbaUnormSrgb",
              "Astc5x5RgbaUnorm", "Astc5x5RgbaUnormSrgb",
              "Astc6x5RgbaUnorm", "Astc6x5RgbaUnormSrgb",
              "Astc6x6RgbaUnorm", "Astc6x6RgbaUnormSrgb",
              "Astc8x5RgbaUnorm", "Astc8x5RgbaUnormSrgb",
              "Astc8x6RgbaUnorm", "Astc8x6RgbaUnormSrgb",
              "Astc10x5RgbaUnorm", "Astc10x5RgbaUnormSrgb",
              "Astc10x6RgbaUnorm", "Astc10x6RgbaUnormSrgb",
              "Astc8x8RgbaUnorm", "Astc8x8RgbaUnormSrgb",
              "Astc10x8RgbaUnorm", "Astc10x8RgbaUnormSrgb",
              "Astc10x10RgbaUnorm", "Astc10x10RgbaUnormSrgb",
              "Astc12x10RgbaUnorm", "Astc12x10RgbaUnormSrgb",
              "Astc12x12RgbaUnorm", "Astc12x12RgbaUnormSrgb" } -> CompressedCaps

\* State machine of the table: one query for one format.
InitFormat ==
    /\ parse_in = [pre |-> <<>>, maj |-> <<>>, dot |-> <<>>, min |-> <<>>, rest |-> <<>>]
    /\ parse_out = NotRun
    /\ gl = NoContext
    /\ exposed = NoAdapter
    /\ gl_objects = {}
    /\ gl_state = GlInitialState
    /\ next_name = 1
    /\ opened = NoDevice
    /\ opens = 0
    /\ tex_format \in TextureFormats
    /\ tex_caps = NoCaps

TextureFormatCapabilities ==
    /\ tex_caps = NoCaps
    /\ tex_caps' = [tag |-> "Done", caps |-> texture_format_capabilities(tex_format)]
    /\ UNCHANGED <<parse_in, parse_out, gl, exposed, gl_objects, gl_state, next_name,
                   opened, opens, tex_format>>

NextFormat == TextureFormatCapabilities

SpecFormat == InitFormat /\ [][NextFormat]_vars

\* C11: the table answers for every recognized format with a non-empty set, and
\* for every block-compressed, ETC2, EAC and ASTC format the set is exactly
\* {sampled, linear-filterable}: no colour-attachment, blend, depth-stencil or
\* storage bit.
C11_TotalAndCompressedSampledOnly ==
    /\ tex_caps = NoCaps => ENABLED TextureFormatCapabilities
    /\ tex_caps.tag = "Done"
          => /\ tex_caps.caps # {}
             /\ (tex_format \in BcFormats \cup Etc2Formats \cup EacFormats \cup AstcFormats)
                   => /\ tex_caps.caps = {"SAMPLED", "SAMPLED_LINEAR"}
                      /\ tex_caps.caps \cap {"COLOR_ATTACHMENT", "COLOR_ATTACHMENT_BLEND",
                                            "DEPTH_STENCIL_ATTACHMENT", "STORAGE"} = {}

\* C11 witness: an ASTC format was queried and answered with exactly the two
\* sampling bits.
C11_Witness ==
    /\ tex_format = "Astc12x12RgbaUnormSrgb"
    /\ tex_caps = [tag |-> "Done", caps |-> {"SAMPLED", "SAMPLED_LINEAR"}]

====
